---- MODULE Spec2Model ----
(***************************************************************************)
(* Friendbot: the pool dispatcher (Bot.Pay), the funding worker            *)
(* (Minion.Run and the functions injected into it) and the pool            *)
(* initializer (initFriendbot / createMinionAccounts).                     *)
(*                                                                         *)
(* Two specifications share the variables:                                 *)
(*   Spec      a Bot serving Pay calls from concurrent request goroutines  *)
(*   SpecBoot  one run of initFriendbot                                    *)
(* The network client is external: every answer it gives is an input.      *)
(***************************************************************************)
EXTENDS Integers, Sequences, FiniteSets, TLC

\* ------------------------------------------------------------------ bounds
MaxPool == 2          \* largest pool a Bot is constructed with
MaxThreads == 2       \* request goroutines that may be inside Pay at once
MaxCalls == 3         \* Pay calls made in one behaviour
MaxLedgerSeq == 1     \* largest sequence the ledger reports for an account
MaxPolls == 4         \* backoff intervals that fit before the deadline

\* ------------------------------------------------------- program constants
StroopDigits == 7     \* amounts have seven decimal places

Threads == 1..MaxThreads

\* Destination addresses (request content).
Addresses == {"GA", "GB"}

\* ------------------------------------------------------------ amount strings
\* A decimal string is the pair (m, s): the digits m with s of them after the
\* point, so "1.00" is [m |-> 100, s |-> 2] and "1.0000000" is
\* [m |-> 10000000, s |-> 7].  A string that is not a number has ok = FALSE.
Amt(m, s) == [ok |-> TRUE, m |-> m, s |-> s]
NotANumber == [ok |-> FALSE, m |-> 0, s |-> 0]

RECURSIVE Pow10(_)
Pow10(n) == IF n = 0 THEN 1 ELSE 10 * Pow10(n - 1)

\* amount.ParseInt64: the value in stroops (value * 10^7), an error when the
\* string is not a number or has more than seven significant decimals.
Parsed(v) == [err |-> FALSE, v |-> v]
ParseError == [err |-> TRUE, v |-> 0]
ParseInt64(a) ==
    IF ~a.ok THEN ParseError
    ELSE IF a.s <= StroopDigits THEN Parsed(a.m * Pow10(StroopDigits - a.s))
    ELSE IF a.m % Pow10(a.s - StroopDigits) = 0
         THEN Parsed(a.m \div Pow10(a.s - StroopDigits))
         ELSE ParseError

\* Configured starting balances: "1.00" and "0".
StartingBalances == {Amt(100, 2), Amt(0, 0)}
\* Balances the ledger reports: "0.9999999", "1.0000000", "2.5", and a
\* string that does not parse.
LedgerBalances == {Amt(9999999, 7), Amt(10000000, 7), Amt(25, 1), NotANumber}
\* CheckAccountExists reports "0" for an account that does not exist.
ZeroBalance == Amt(0, 0)

\* --------------------------------------------------------- network errors
\* A NetworkError as the code queries it: the three classifications and the
\* raw result string (res = "none": ResultString returns an error).
createAccountAlreadyExistXDR == "AAAAAAAAAGT/////AAAAAQAAAAAAAAAA/////AAAAAA="
NetErr(nf, bs, to, res) ==
    [net |-> TRUE, notFound |-> nf, badSeq |-> bs, timeout |-> to, res |-> res]
\* An error that is not a NetworkError.
PlainError == [net |-> FALSE, notFound |-> FALSE, badSeq |-> FALSE,
               timeout |-> FALSE, res |-> "none"]
ErrNotFound == NetErr(TRUE, FALSE, FALSE, "none")
ErrBadSeq == NetErr(FALSE, TRUE, FALSE, "tx_bad_seq")
ErrTimeout == NetErr(FALSE, FALSE, TRUE, "none")
ErrOther == NetErr(FALSE, FALSE, FALSE, "tx_failed")
ErrAlreadyExist == NetErr(FALSE, FALSE, FALSE, createAccountAlreadyExistXDR)
NetworkErrors == {ErrNotFound, ErrBadSeq, ErrTimeout, ErrOther, ErrAlreadyExist}
ClientErrors == NetworkErrors \cup {PlainError}

VARIABLES
    Minions,          \* bot.Minions: index -> [Sequence, forceRefreshSequence]
    StartingBalance,  \* Minion.StartingBalance (the same for every minion)
    nextMinionIndex,  \* bot.nextMinionIndex
    indexMux,         \* bot.indexMux: <<t>> when thread t holds it, else << >>
    pc,               \* thread -> its position in Pay / Run
    call,             \* thread -> the locals of its current Pay call
    selected,         \* history: minion indices in lock-acquisition order
    lastSubmitted,    \* history: index -> sequence number of the last
                      \*          successful submission on it, -1 if none;
                      \*          kept for a minion until a call refreshes it
    refreshed,        \* history: index -> a call on it fetched the sequence
    lastBadSeq,       \* history: index -> whether the last call returned
                      \*          on it was rejected with BadSequence, and
                      \*          whether that call had overlapped another one
    calls,            \* number of Pay calls started
    boot,             \* the run of initFriendbot / createMinionAccounts
    run,              \* one Run on a destination of either kind
    rpc,              \* one SubmitTransaction of the RPC network client
    ledger            \* address -> the account the ledger holds for it

vars == <<Minions, StartingBalance, nextMinionIndex, indexMux, pc, call,
          selected, lastSubmitted, refreshed, lastBadSeq, calls, boot,
          run, rpc, ledger>>

\* ------------------------------------------------------- values of a call
NoMinion == [Sequence |-> -1, forceRefreshSequence |-> FALSE]
NoTx == [op |-> "none", source |-> "", dest |-> "", amount |-> ZeroBalance,
         seq |-> -1]
\* SubmitResult{maybeTransactionSuccess, maybeErr}; nil is NoTx / "nil".
SubmitResult(succ, err) == [succ |-> succ, err |-> err]
NoResult == SubmitResult(NoTx, "unset")

NoCall ==
    [destAddress |-> "",        \* Pay's argument
     idx         |-> -1,        \* index read under the lock
     minion      |-> NoMinion,  \* Pay's local `minion` (Run's receiver)
     seq0        |-> -1,        \* minion.Account.Sequence after the sequence check
     fetches     |-> 0,         \* GetAccountDetails calls for the minion's account
     afterBadSeq |-> FALSE,     \* dispatched right after a BadSequence failure
     afterCollision |-> FALSE,  \* ... of a call that had overlapped another
     overlap     |-> FALSE,     \* another call was in flight on the same minion
     exists      |-> FALSE,     \* CheckAccountExists results
     balance     |-> ZeroBalance,
     probed      |-> FALSE,
     tx          |-> NoTx,      \* transaction built by makeTx
     submits     |-> 0,         \* NetworkClient.SubmitTransaction calls
     badSeq      |-> FALSE,     \* the submission failed with IsBadSequence
     subErr      |-> << >>,     \* <<e>>: the error NetworkClient.SubmitTransaction
                                \* returned
     balanceAfter |-> -1,       \* stroops at the destination once the ledger
                                \* applied the transaction
     prevSeq     |-> -1,        \* sequence of the previous successful
                                \* submission on this minion, when this one succeeded
     runs        |-> 0,         \* `go minion.Run` statements executed
     resultChan  |-> "nil",     \* the call's channel: "nil", "open", "closed"
     sends       |-> 0,         \* sends on resultChan
     out         |-> NoResult,  \* what Run sent on resultChan
     ret         |-> NoResult]  \* the pair Pay returned

\* No Run on its own and no RPC submission is in progress.
NoRun ==
    [pc          |-> "off",
     destAddress |-> "",
     backend     |-> "",           \* the NetworkClient of the minion
     account     |-> [exists |-> FALSE, balance |-> ZeroBalance],
                                   \* the destination as the ledger holds it
     minion      |-> NoMinion,
     minion0     |-> NoMinion,     \* the minion as Run received it
     ledgerSeq   |-> -1,           \* the sequence the ledger answered
     exists      |-> FALSE,        \* CheckAccountExists results
     balance     |-> ZeroBalance,
     probeErr    |-> << >>,        \* <<e>>: the error of GetAccountDetails
     subErr      |-> << >>,        \* <<e>>: the error of SubmitTransaction
     probes      |-> 0,            \* CheckAccountExists calls
     simulates   |-> 0,            \* SimulateTransaction calls
     submits     |-> 0,            \* SubmitTransaction calls
     trace       |-> << >>,        \* the calls made, in order
     sim         |-> [err |-> "unset", minResourceFee |-> 0],
     tx          |-> NoTx,
     out         |-> NoResult]
NoRpc ==
    [pc         |-> "off",
     expired    |-> FALSE,     \* ctx of context.WithTimeout is done
     sent       |-> FALSE,     \* SendTransaction returned a hash to poll
     sendStatus |-> "",        \* response.Status of SendTransaction
     polls      |-> 0,         \* GetTransaction requests
     lastStatus |-> "",        \* txResponse.Status of the last poll, "" if
                               \* it got no response
     finalized  |-> FALSE,     \* a poll observed SUCCESS or FAILED
     latePolls  |-> 0,         \* GetTransaction requests made with ctx done
     ret        |-> << >>]     \* the error returned: << >> is nil, else <<e>>

\* The ledger's accounts of the destination addresses; none exists.
NoAccount == [exists |-> FALSE, balance |-> 0, created |-> 0, successes |-> 0]
NoLedger == [d \in Addresses |-> NoAccount]

\* Positions of a thread.  From "checkSeq" to "send" the goroutine started
\* by Pay is executing Run while Pay itself is blocked in `<-resultChan`.
RunPcs == {"checkSeq", "probe", "build", "submit"}
PayPcs == {"lock", "select", "unlock", "send"}
AllPcs == {"idle", "returned"} \cup PayPcs \cup RunPcs

\* A call on minion index i that has selected it and has not returned.
InFlight(u, i) == call[u].idx = i /\ pc[u] \notin {"idle", "lock", "select", "returned"}

\* ----------------------------------------------------------------- Account
\* Account.IncrementSequenceNumber has a value receiver: `a.Sequence++` acts
\* on the callee's copy.  The caller's account is `acct`, the returned value
\* is `ret`.
IncrementSequenceNumber(a) == [acct |-> a, ret |-> a.Sequence + 1]

\* Account.RefreshSequenceNumber (pointer receiver) with the ledger's answer.
RefreshSequenceNumber_KeepCached(a, ledgerSeq) ==
    IF a.Sequence # 0 THEN a ELSE [a EXCEPT !.Sequence = ledgerSeq]
RefreshSequenceNumber(a, ledgerSeq) == [a EXCEPT !.Sequence = ledgerSeq]

\* ------------------------------------------------------------------ Minion
\* CheckSequenceRefresh: TRUE when it returns without asking the ledger.
SequenceIsCached_Never(m) == FALSE
SequenceIsCached_IgnoresFlag(m) == m.Sequence # 0
SequenceIsCached_ZeroCounts(m) == ~m.forceRefreshSequence
SequenceIsCached(m) == m.Sequence # 0 /\ ~m.forceRefreshSequence

\* Minion.checkHandleBadSequence
checkHandleBadSequence_Never(m, e) == m
checkHandleBadSequence_AnyError(m, e) ==
    [m EXCEPT !.forceRefreshSequence = TRUE]
checkHandleBadSequence(m, e) ==
    IF ~e.badSeq THEN m ELSE [m EXCEPT !.forceRefreshSequence = TRUE]

\* Minion.checkBalance: the error it returns, "nil" when there is none.
checkBalance_NoParseCheck(balance, starting) ==
    LET bal == ParseInt64(balance)
        st  == ParseInt64(starting)
    IN  IF ~bal.err /\ ~st.err /\ bal.v >= st.v THEN "ErrAccountFunded"
        ELSE "nil"
checkBalance_Strict(balance, starting) ==
    LET bal == ParseInt64(balance)
        st  == ParseInt64(starting)
    IN  IF bal.err THEN "cannot parse account balance"
        ELSE IF st.err THEN "cannot parse starting balance"
        ELSE IF bal.v > st.v THEN "ErrAccountFunded"
        ELSE "nil"
checkBalance(balance, starting) ==
    LET bal == ParseInt64(balance)
        st  == ParseInt64(starting)
    IN  IF bal.err THEN "cannot parse account balance"
        ELSE IF st.err THEN "cannot parse starting balance"
        ELSE IF bal.v >= st.v THEN "ErrAccountFunded"
        ELSE "nil"

\* Minion.makeTx / makeCreateTx / makePaymentTx: the transaction, sequenced
\* by the minion's account (IncrementSequenceNum: true makes txnbuild use
\* the value IncrementSequenceNumber returns) and paying StartingBalance.
makeTx_AlwaysCreate(m, destAddress, exists, starting) ==
    [op     |-> "CreateAccount",
     source |-> "BotAccount",
     dest   |-> destAddress,
     amount |-> starting,
     seq    |-> IncrementSequenceNumber(m).ret]
makeTx(m, destAddress, exists, starting) ==
    [op     |-> IF exists THEN "Payment" ELSE "CreateAccount",
     source |-> "BotAccount",      \* SourceAccount of the operation
     dest   |-> destAddress,
     amount |-> starting,
     seq    |-> IncrementSequenceNumber(m).ret]

\* What the ledger does to the destination when it applies the operation:
\* a Payment adds its amount to the balance, a CreateAccount starts the
\* account with its amount.
Applied(tx, balance) ==
    IF tx.op = "Payment"
    THEN ParseInt64(balance).v + ParseInt64(tx.amount).v
    ELSE ParseInt64(tx.amount).v

\* SubmitTransaction: the error returned for a failed submission.
SubmitError_NoAccountExists(e) ==
    IF ~e.net THEN "submitting tx to horizon: wrapped"
    ELSE IF e.res = "none" THEN "submitting tx to horizon: error getting network error code"
    ELSE e.res
SubmitError(e) ==
    IF ~e.net THEN "submitting tx to horizon: wrapped"
    ELSE IF e.res = "none" THEN "submitting tx to horizon: error getting network error code"
    ELSE IF e.res = createAccountAlreadyExistXDR THEN "ErrAccountExists"
    ELSE e.res

\* ================================================================ bootstrap
\* Defaults applied by initFriendbot.
DefaultNumMinions == 1000
DefaultMinionBatchSize == 50
DefaultSubmitTxRetriesAllowed == 5

\* Config values tried.
MaxNumMinions == 3
MaxBatchSize == 2
MaxRetriesAllowed == 1
NumMinionsValues == (0 - 1)..MaxNumMinions
MinionBatchSizeValues == (0 - 1)..MaxBatchSize
SubmitTxRetriesValues == (0 - 1)..MaxRetriesAllowed
\* cfg.FriendbotSecret: blank, not a seed, a seed.
SecretValues == {"", "not-a-seed", "seed"}
\* The configurations tried.  A pool of the default size is created in
\* batches of the default size (twenty batches) or with a negative batch
\* size, and without retries: the accounts of every timed-out attempt stay
\* in the history, which makes retried runs of twenty batches too many.
Configs ==
    {cfg \in [FriendbotSecret : SecretValues,
              NumMinions : NumMinionsValues,
              MinionBatchSize : MinionBatchSizeValues,
              SubmitTxRetriesAllowed : SubmitTxRetriesValues] :
        cfg.NumMinions = 0 =>
            (cfg.MinionBatchSize <= 0 /\ cfg.SubmitTxRetriesAllowed < 0)}

\* `if x == 0 { x = default }`
OrDefault(x, d) == IF x = 0 THEN d ELSE x

\* initFriendbot's first check (the other strings of cfg are taken non-blank).
InvalidParams(cfg) == cfg.FriendbotSecret = "" \/ cfg.NumMinions < 0

\* numCreateMinions: min(numRemainingMinions, minionBatchSize)
NumCreateMinions_NoMin(numRemainingMinions, minionBatchSize) ==
    minionBatchSize
NumCreateMinions(numRemainingMinions, minionBatchSize) ==
    IF numRemainingMinions < minionBatchSize THEN numRemainingMinions
    ELSE minionBatchSize

\* The keys keypair.Random() yields for a batch: fresh ones, nextKey onwards.
NewKeys(nextKey, n) == [i \in 1..n |-> nextKey + i - 1]
KeySet(q) == {q[i] : i \in DOMAIN q}

\* `return minions, err` of createMinionAccounts on every abort.
Abort_WithBatch(minions, newMinions, err) ==
    [minions |-> minions \o newMinions, err |-> err]
Abort(minions, newMinions, err) == [minions |-> minions, err |-> err]

\* `case internal.NetworkError: if e.IsTimeout() {`: the failures the loop
\* retries.
Retryable_AnyNetworkError(e) == e.net
Retryable(e) == e.net /\ e.timeout

\* `if currentSubmitTxRetry >= submitTxRetriesAllowed {`
RetriesExhausted_OffByOne(currentSubmitTxRetry, submitTxRetriesAllowed) ==
    currentSubmitTxRetry > submitTxRetriesAllowed
RetriesExhausted(currentSubmitTxRetry, submitTxRetriesAllowed) ==
    currentSubmitTxRetry >= submitTxRetriesAllowed

\* initFriendbot: `if err != nil && len(minions) == 0 { return nil, err }`
InitFails_NeverOnEmpty(minions, err) == err # "nil" /\ Len(minions) # 0
InitFails(minions, err) == err # "nil" /\ Len(minions) = 0

\* The sequence the ledger reports for the bot account: it moves between
\* fetches as batch transactions are applied.
FunderSequences == 1..(MaxLedgerSeq + 1)

NoBoot ==
    [pc |-> "off",
     cfg |-> [FriendbotSecret |-> "", NumMinions |-> 0, MinionBatchSize |-> 0,
              SubmitTxRetriesAllowed |-> 0],
     numMinions |-> 0, minionBatchSize |-> 0, submitTxRetriesAllowed |-> 0,
     minions |-> << >>,            \* var minions []internal.Minion
     numRemainingMinions |-> 0,
     currentSubmitTxRetry |-> 0,
     newMinions |-> << >>,         \* the batch being created
     botSequence |-> 0,            \* botAccount.Sequence
     txSeq |-> 0,                  \* sequence of the batch transaction
     nextKey |-> 1,                \* keys generated so far, plus one
     ret |-> [minions |-> << >>, err |-> "unset"],   \* createMinionAccounts
     result |-> "none",            \* initFriendbot: "error", "bot" or "panic"
     created |-> {},               \* history: accounts a successful tx created
     attempted |-> {},             \* history: accounts of failed submissions
     timedOut |-> {},              \* history: accounts of timed-out submissions
     okBatches |-> 0,              \* history: successful submissions
     submissions |-> 0,            \* history: SubmitTransaction calls
     batchAttempts |-> 0,          \* history: submissions of the current batch
     prevAttempt |-> << >>,        \* history: accounts of the attempt retried
     fetches |-> 0,                \* history: answered fetches of the bot's sequence
     fetched |-> 0,                \* history: the sequence the last fetch reported
     lastErr |-> << >>,            \* history: <<e>>, the last submission failed
     batchOps |-> << >>]           \* history: operations of each applied tx

BootGoto(b, p) == [b EXCEPT !.pc = p]

\* initFriendbot(cfg) up to the call of createMinionAccounts.
BootStart ==
    /\ boot.pc = "start"
    /\ LET cfg == boot.cfg IN
         IF InvalidParams(cfg)
         THEN boot' = [boot EXCEPT !.pc = "done", !.result = "error"]
         ELSE IF cfg.FriendbotSecret # "seed"
         THEN \* strkey.MustDecode panics
              boot' = [boot EXCEPT !.pc = "done", !.result = "panic"]
         ELSE boot' = [boot EXCEPT
                 !.pc = "loop",
                 !.numMinions = OrDefault(cfg.NumMinions, DefaultNumMinions),
                 !.minionBatchSize =
                     OrDefault(cfg.MinionBatchSize, DefaultMinionBatchSize),
                 !.submitTxRetriesAllowed =
                     OrDefault(cfg.SubmitTxRetriesAllowed,
                               DefaultSubmitTxRetriesAllowed),
                 !.numRemainingMinions =
                     OrDefault(cfg.NumMinions, DefaultNumMinions)]

\* `for numRemainingMinions > 0 {` and botAccount.RefreshSequenceNumber.
BootLoop ==
    /\ boot.pc = "loop"
    /\ IF boot.numRemainingMinions > 0
       THEN \/ \E ls \in FunderSequences :
                 boot' = [boot EXCEPT
                    !.pc = "batch",
                    !.botSequence =
                        RefreshSequenceNumber([Sequence |-> @], ls).Sequence,
                    !.fetches = @ + 1,
                    !.fetched = ls,
                    !.newMinions = << >>]
            \/ boot' = [boot EXCEPT
                   !.pc = "return",
                   !.newMinions = << >>,
                   !.ret = Abort(boot.minions, << >>, "refreshing bot seqnum")]
       ELSE boot' = [boot EXCEPT
               !.pc = "return",
               !.ret = [minions |-> boot.minions, err |-> "nil"]]

\* The keypairs and CreateAccount operations of the batch, and the
\* transaction: txnbuild.NewTransaction rejects an empty operation list;
\* building, signing and serializing may fail otherwise too.
BootBatch ==
    /\ boot.pc = "batch"
    /\ LET numCreateMinions ==
               NumCreateMinions(boot.numRemainingMinions, boot.minionBatchSize)
           n == IF numCreateMinions > 0 THEN numCreateMinions ELSE 0
           newMinions == NewKeys(boot.nextKey, n)
       IN
         \/ /\ n > 0
            /\ \* keypair.Random fails at the first or the last minion of the batch
               \E j \in {1, n} :
                 boot' = [boot EXCEPT
                    !.pc = "return",
                    !.nextKey = @ + (j - 1),
                    !.newMinions = NewKeys(boot.nextKey, j - 1),
                    !.ret = Abort(boot.minions, NewKeys(boot.nextKey, j - 1),
                                  "making keypair")]
         \/ boot' = [boot EXCEPT
                    !.pc = "return",
                    !.nextKey = @ + n,
                    !.newMinions = newMinions,
                    !.ret = Abort(boot.minions, newMinions,
                                  "unable to build tx")]
         \/ /\ n > 0
            /\ boot' = [boot EXCEPT
                    !.pc = "submit",
                    !.nextKey = @ + n,
                    !.newMinions = newMinions,
                    !.txSeq = IncrementSequenceNumber(
                                  [Sequence |-> boot.botSequence]).ret]

\* networkClient.SubmitTransaction(txe) and what follows it in the loop.
BootSubmit ==
    /\ boot.pc = "submit"
    /\ LET keys == KeySet(boot.newMinions)
           sub == [boot EXCEPT !.submissions = @ + 1,
                               !.batchAttempts = @ + 1]
       IN
         \/ \* the batch is applied
            boot' = [sub EXCEPT
               !.lastErr = << >>,
               !.pc = "loop",
               !.batchAttempts = 0,
               !.prevAttempt = << >>,
               !.batchOps = Append(@, Len(boot.newMinions)),
               !.currentSubmitTxRetry = 0,
               !.numRemainingMinions =
                   @ - NumCreateMinions(boot.numRemainingMinions,
                                        boot.minionBatchSize),
               !.minions = @ \o boot.newMinions,
               !.created = @ \cup keys,
               !.okBatches = @ + 1]
         \/ \E e \in ClientErrors :
            LET b == [sub EXCEPT !.lastErr = <<e>>] IN
              IF Retryable(e)
              THEN IF RetriesExhausted(boot.currentSubmitTxRetry,
                                       boot.submitTxRetriesAllowed)
                   THEN boot' = [b EXCEPT
                          !.pc = "return",
                          !.attempted = @ \cup keys,
                          !.timedOut = @ \cup keys,
                          !.ret = Abort(boot.minions, boot.newMinions,
                                        "after retrying")]
                   ELSE boot' = [b EXCEPT
                          !.pc = "loop",
                          !.prevAttempt = boot.newMinions,
                          !.attempted = @ \cup keys,
                          !.timedOut = @ \cup keys,
                          !.currentSubmitTxRetry = @ + 1]
              ELSE boot' = [b EXCEPT
                     !.pc = "return",
                     !.attempted = @ \cup keys,
                     !.ret = Abort(boot.minions, boot.newMinions,
                                   "submitting create accounts tx")]

\* initFriendbot after createMinionAccounts returned: the error, or the Bot
\* (its minions are stored with Sequence 0 and nextMinionIndex is 0).
BootReturn ==
    /\ boot.pc = "return"
    /\ IF InitFails(boot.ret.minions, boot.ret.err)
       THEN /\ boot' = [boot EXCEPT !.pc = "done", !.result = "error"]
            /\ UNCHANGED Minions
       ELSE /\ boot' = [boot EXCEPT !.pc = "done", !.result = "bot"]
            /\ Minions' = [i \in 0..(Len(boot.ret.minions) - 1) |->
                             [Sequence |-> 0, forceRefreshSequence |-> FALSE]]

BotRest == <<StartingBalance, nextMinionIndex, indexMux, pc, call,
             selected, lastSubmitted, refreshed, lastBadSeq, calls, run, rpc, ledger>>

InitBoot ==
    /\ \E cfg \in Configs : boot = [NoBoot EXCEPT !.pc = "start", !.cfg = cfg]
    /\ Minions = << >>
    /\ StartingBalance = Amt(100, 2)
    /\ nextMinionIndex = 0
    /\ indexMux = << >>
    /\ pc = << >>
    /\ call = << >>
    /\ selected = << >>
    /\ lastSubmitted = << >>
    /\ refreshed = << >>
    /\ lastBadSeq = << >>
    /\ calls = 0
    /\ run = NoRun
    /\ rpc = NoRpc
    /\ ledger = NoLedger

NextBoot ==
    \/ BootStart /\ UNCHANGED Minions /\ UNCHANGED BotRest
    \/ BootLoop /\ UNCHANGED Minions /\ UNCHANGED BotRest
    \/ BootBatch /\ UNCHANGED Minions /\ UNCHANGED BotRest
    \/ BootSubmit /\ UNCHANGED Minions /\ UNCHANGED BotRest
    \/ BootReturn /\ UNCHANGED BotRest

SpecBoot == InitBoot /\ [][NextBoot]_vars

\* initFriendbot is one sequential call: it keeps running until it returns.
SpecBootLive == SpecBoot /\ WF_vars(NextBoot)

\* ==================================================================== Spec
\* A Bot as its constructors leave it: initFriendbot stores every minion
\* with Sequence 0, the tests build Bots whose minions carry the sequence
\* of their account; the unexported forceRefreshSequence is always the zero
\* value.
PoolSizes == 1..MaxPool
Unlocked == << >>                       \* sync.Mutex zero value
PoolLen(ms) == Cardinality(DOMAIN ms)   \* len(bot.Minions)
InitSequences == {0, 1}

Init ==
    /\ \E n \in PoolSizes :
         \E q \in InitSequences :
           Minions = [i \in 0..(n - 1) |-> [Sequence |-> q,
                                            forceRefreshSequence |-> FALSE]]
    /\ StartingBalance \in StartingBalances
    /\ nextMinionIndex = 0
    /\ indexMux = Unlocked
    /\ pc = [t \in Threads |-> "idle"]
    /\ call = [t \in Threads |-> NoCall]
    /\ selected = << >>
    /\ lastSubmitted = [i \in DOMAIN Minions |-> -1]
    /\ refreshed = [i \in DOMAIN Minions |-> FALSE]
    /\ lastBadSeq = [i \in DOMAIN Minions |->
                        [badSeq |-> FALSE, collided |-> FALSE]]
    /\ calls = 0
    /\ boot = NoBoot
    /\ run = NoRun
    /\ rpc = NoRpc
    /\ ledger = NoLedger

Goto(t, p) == pc' = [pc EXCEPT ![t] = p]
Locals(t, c) == call' = [call EXCEPT ![t] = c]

\* The cursor after a selection.
NextIndex_NoWrap(i, n) == i + 1
NextIndex_Stuck(i, n) == i
NextIndex_Skip(i, n) == (i + 2) % n
NextIndex(i, n) == (i + 1) % n

\* ------------------------------------------------------------------ Bot.Pay
\* A request goroutine enters Pay(ctx, destAddress).
PayCall(t) ==
    /\ pc[t] \in {"idle", "returned"}
    /\ calls < MaxCalls
    /\ \E d \in Addresses : Locals(t, [NoCall EXCEPT !.destAddress = d])
    /\ calls' = calls + 1
    /\ Goto(t, "lock")
    /\ UNCHANGED <<boot, run, rpc, ledger>>
    /\ UNCHANGED <<Minions, StartingBalance, nextMinionIndex, indexMux,
                   selected, lastSubmitted, refreshed, lastBadSeq>>

\* bot.indexMux.Lock()
PayLock(t) ==
    /\ pc[t] = "lock"
    /\ indexMux = Unlocked
    /\ indexMux' = <<t>>
    /\ Goto(t, "select")
    /\ UNCHANGED <<boot, run, rpc, ledger>>
    /\ UNCHANGED <<Minions, StartingBalance, nextMinionIndex, call,
                   selected, lastSubmitted, refreshed, lastBadSeq, calls>>

\* minion := bot.Minions[bot.nextMinionIndex]   (a copy of the element)
\* bot.nextMinionIndex = (bot.nextMinionIndex + 1) % len(bot.Minions)
PaySelect(t) ==
    /\ pc[t] = "select"
    /\ LET i == nextMinionIndex
           others == {u \in Threads \ {t} : InFlight(u, i)}
       IN
         /\ call' = [u \in Threads |->
                 IF u = t
                 THEN [call[t] EXCEPT
                         !.idx = i,
                         !.minion = Minions[i],
                         !.afterBadSeq = lastBadSeq[i].badSeq /\ others = {},
                         !.afterCollision =
                             lastBadSeq[i].collided /\ others = {},
                         !.overlap = others # {}]
                 ELSE IF u \in others THEN [call[u] EXCEPT !.overlap = TRUE]
                 ELSE call[u]]
         /\ selected' = Append(selected, i)
    /\ nextMinionIndex' = NextIndex(nextMinionIndex, PoolLen(Minions))
    /\ Goto(t, "unlock")
    /\ UNCHANGED <<boot, run, rpc, ledger>>
    /\ UNCHANGED <<Minions, StartingBalance, indexMux, lastSubmitted, refreshed,
                   lastBadSeq, calls>>

\* bot.indexMux.Unlock(); resultChan := make(chan SubmitResult);
\* go minion.Run(ctx, destAddress, resultChan).  Pay then blocks in the
\* receive.
Unlock_Deferred(mux) == mux
Unlock(mux) == Unlocked
PayUnlockGo(t) ==
    /\ pc[t] = "unlock"
    /\ indexMux' = Unlock(indexMux)
    /\ Locals(t, [call[t] EXCEPT !.runs = @ + 1, !.resultChan = "open"])
    /\ Goto(t, "checkSeq")
    /\ UNCHANGED <<boot, run, rpc, ledger>>
    /\ UNCHANGED <<Minions, StartingBalance, nextMinionIndex,
                   selected, lastSubmitted, refreshed, lastBadSeq, calls>>

\* ---------------------------------------------------------------- Minion.Run
\* Run sends r on resultChan (it blocks in the send until Pay receives).
Send_Forgotten(t, c, r) ==
    /\ Locals(t, [c EXCEPT !.out = r])
    /\ Goto(t, "exited")
Send_NoReturn(t, c, r) ==
    /\ Locals(t, [c EXCEPT !.out = r, !.sends = @ + 2])
    /\ Goto(t, "send")
Send(t, c, r) ==
    /\ Locals(t, [c EXCEPT !.out = r, !.sends = @ + 1])
    /\ Goto(t, "send")

\* minion.CheckSequenceRefresh(minion, minion.NetworkClient)
RunCheckSequenceRefresh(t) ==
    /\ pc[t] = "checkSeq"
    /\ LET c == call[t] IN
         IF SequenceIsCached(c.minion)
         THEN /\ Locals(t, [c EXCEPT !.seq0 = c.minion.Sequence])
              /\ Goto(t, "probe")
              /\ UNCHANGED <<refreshed, lastSubmitted>>
         ELSE \/ \* GetAccountDetails fails
                 /\ Send(t, [c EXCEPT !.fetches = @ + 1],
                         SubmitResult(NoTx, "checking minion seq"))
                 /\ UNCHANGED <<refreshed, lastSubmitted>>
              \/ \* GetAccountDetails answers with the ledger's sequence
                 \E ls \in 0..MaxLedgerSeq :
                   /\ Locals(t, [c EXCEPT
                         !.fetches = @ + 1,
                         !.minion = [RefreshSequenceNumber(c.minion, ls)
                                        EXCEPT !.forceRefreshSequence = FALSE],
                         !.seq0 = ls])
                   /\ Goto(t, "probe")
                   /\ refreshed' = [refreshed EXCEPT ![c.idx] = TRUE]
                   /\ lastSubmitted' = [lastSubmitted EXCEPT ![c.idx] = -1]
    /\ UNCHANGED <<boot, run, rpc, ledger>>
    /\ UNCHANGED <<Minions, StartingBalance, nextMinionIndex, indexMux,
                   selected, lastBadSeq, calls>>

\* minion.CheckAccountExists(minion, minion.NetworkClient, destAddress)
CheckAccountExistsStep(t) ==
    /\ pc[t] = "probe"
    /\ LET c == call[t] IN
         \/ \* the account exists: its native balance
            \E b \in LedgerBalances :
              /\ Locals(t, [c EXCEPT !.exists = TRUE, !.balance = b,
                                     !.probed = TRUE])
              /\ Goto(t, "build")
         \/ \E e \in ClientErrors :
              IF e.net /\ e.notFound
              THEN /\ Locals(t, [c EXCEPT !.exists = FALSE,
                                          !.balance = ZeroBalance,
                                          !.probed = TRUE])
                   /\ Goto(t, "build")
              ELSE Send(t, c, SubmitResult(NoTx, "checking account exists"))
    /\ UNCHANGED <<Minions, StartingBalance, nextMinionIndex, indexMux,
                   selected, lastSubmitted, refreshed, lastBadSeq, calls>>

\* The probe with any answer of the network client.
RunCheckAccountExists(t) ==
    /\ CheckAccountExistsStep(t)
    /\ UNCHANGED <<boot, run, rpc, ledger>>

\* The steps of Run between the probe and the submission, which touch only
\* the goroutine's own minion:
\*   err = minion.checkBalance(balance)
\*   txHash, txStr, err := minion.makeTx(destAddress, exists)
\*   _, err = minion.Account.IncrementSequenceNumber()   (err is always nil)
RunBuild(t) ==
    /\ pc[t] = "build"
    /\ LET c == call[t]
           err == checkBalance(c.balance, StartingBalance)
       IN  IF err # "nil"
           THEN Send(t, c, SubmitResult(NoTx, err))
           ELSE \/ \* building, signing, serializing or hashing fails
                   Send(t, c, SubmitResult(NoTx, "making payment tx"))
                \/ /\ Locals(t, [c EXCEPT
                        !.tx = makeTx(c.minion, c.destAddress, c.exists,
                                      StartingBalance),
                        !.minion = IncrementSequenceNumber(c.minion).acct])
                   /\ Goto(t, "submit")
    /\ UNCHANGED <<boot, run, rpc, ledger>>
    /\ UNCHANGED <<Minions, StartingBalance, nextMinionIndex, indexMux,
                   selected, lastSubmitted, refreshed, lastBadSeq, calls>>

\* succ, err := minion.SubmitTransaction(ctx, minion, networkClient, txHash,
\* txStr), then the send of the outcome.
SubmitStep(t) ==
    /\ pc[t] = "submit"
    /\ LET c == [call[t] EXCEPT !.submits = @ + 1] IN
         \/ \* the ledger applies the transaction
            /\ Send(t, [c EXCEPT !.prevSeq = lastSubmitted[c.idx],
                                 !.balanceAfter = Applied(c.tx, c.balance)],
                    SubmitResult(c.tx, "nil"))
            /\ lastSubmitted' = IF refreshed[c.idx] THEN lastSubmitted
                              ELSE [lastSubmitted EXCEPT ![c.idx] = c.tx.seq]
         \/ \E e \in ClientErrors :
              /\ Send(t, [c EXCEPT
                         !.minion = IF e.net
                                    THEN checkHandleBadSequence(c.minion, e)
                                    ELSE c.minion,
                         !.badSeq = e.net /\ e.badSeq,
                         !.subErr = <<e>>],
                      SubmitResult(NoTx, SubmitError(e)))
              /\ UNCHANGED lastSubmitted
    /\ UNCHANGED <<Minions, StartingBalance, nextMinionIndex, indexMux,
                   selected, refreshed, lastBadSeq, calls>>

\* The submission with any answer of the network client.
RunSubmit(t) ==
    /\ SubmitStep(t)
    /\ UNCHANGED <<boot, run, rpc, ledger>>

\* ------------------------------------------------------- back in Bot.Pay
\* return maybeSubmitResult.maybeTransactionSuccess, maybeSubmitResult.maybeErr
PayResult_DropErr(r) == [succ |-> r.succ, err |-> "nil"]
PayResult(r) == [succ |-> r.succ, err |-> r.err]

\* bot.Minions after a Run on Pay's local `minion`: Minions is a []Minion
\* and `minion := bot.Minions[i]` copies the element, so what Run did to its
\* receiver m stays in the copy.
PoolAfterRun_Neighbour(ms, i, m) ==
    [ms EXCEPT ![(i + 1) % PoolLen(ms)] = m]
PoolAfterRun_Shared(ms, i, m) == [ms EXCEPT ![i] = m]
PoolAfterRun(ms, i, m) == ms

\* maybeSubmitResult := <-resultChan (completes Run's send);
\* close(resultChan); return maybeTransactionSuccess, maybeErr.  The local
\* `minion` goes out of scope; nothing is stored back into bot.Minions.
PayReceive(t) ==
    /\ pc[t] = "send"
    /\ LET c == call[t]
           maybeSubmitResult == c.out
       IN  /\ Locals(t, [NoCall EXCEPT !.out = c.out, !.runs = c.runs,
                                       !.sends = c.sends,
                                       !.resultChan = "closed",
                                       !.ret = PayResult(maybeSubmitResult)])
           /\ lastBadSeq' = [lastBadSeq EXCEPT ![c.idx] =
                                [badSeq   |-> c.badSeq,
                                 collided |-> c.badSeq /\ c.overlap]]
           /\ Minions' = PoolAfterRun(Minions, c.idx, c.minion)
    /\ Goto(t, "returned")
    /\ UNCHANGED <<boot, run, rpc, ledger>>
    /\ UNCHANGED <<StartingBalance, nextMinionIndex, indexMux,
                   selected, lastSubmitted, refreshed, calls>>

Next ==
    \E t \in Threads :
       \/ PayCall(t)
       \/ PayLock(t)
       \/ PaySelect(t)
       \/ PayUnlockGo(t)
       \/ RunCheckSequenceRefresh(t)
       \/ RunCheckAccountExists(t)
       \/ RunBuild(t)
       \/ RunSubmit(t)
       \/ PayReceive(t)

Spec == Init /\ [][Next]_vars

\* Scheduling: a goroutine that can take a step is eventually run, and a
\* network call that returns lets Run go on.  Nothing obliges a client to
\* make another request.  (sync.Mutex would justify strong fairness for
\* Lock; weak fairness is all that is assumed.)
Step(t) ==
    \/ PayLock(t)
    \/ PaySelect(t)
    \/ PayUnlockGo(t)
    \/ RunCheckSequenceRefresh(t)
    \/ RunCheckAccountExists(t)
    \/ RunBuild(t)
    \/ RunSubmit(t)
    \/ PayReceive(t)

Fairness ==
    \A t \in Threads : WF_vars(Step(t))

SpecLive == Init /\ [][Next]_vars /\ Fairness

TypeOK ==
    /\ nextMinionIndex \in Int
    /\ indexMux \in {Unlocked} \cup {<<t>> : t \in Threads}
    /\ \A t \in Threads : pc[t] \in AllPcs
    /\ calls \in 0..MaxCalls

\* ================================================= Run by destination kind
\* One Run of a minion whose destination is a classic account or a contract.
\* The steps for a classic destination are those of Run above; the choice
\* by kind and the contract steps follow the funding worker's contract.
ClassicAddresses == {"GA"}
ContractAddresses == {"CA"}
Backends == {"horizon", "rpc"}

\* internal.IsContractAddress
IsContractAddress_Never(a) == FALSE
IsContractAddress_Always(a) == TRUE
IsContractAddress(a) == a \in ContractAddresses

\* The destination's account entry: none, or one with a native balance.
LedgerAccounts ==
    {[exists |-> FALSE, balance |-> ZeroBalance]} \cup
    {[exists |-> TRUE, balance |-> b] : b \in LedgerBalances}

\* NetworkClient.SimulateTransaction: a client without simulation (Horizon)
\* returns an error; the RPC client returns the resource data or an error.
SimulateOutcomes(backend) ==
    IF backend = "horizon"
    THEN {[err |-> "simulation unsupported", minResourceFee |-> 0]}
    ELSE {[err |-> "nil", minResourceFee |-> 100000],
          [err |-> "simulation failed", minResourceFee |-> 0]}

SimulationFails_Ignored(r) == FALSE
SimulationFails(r) == r.err # "nil"

\* The invoke-transfer transaction built from the simulation's data.
makeContractTx(m, destAddress, starting) ==
    [op     |-> "InvokeHostFunction",
     source |-> "BotAccount",
     dest   |-> destAddress,
     amount |-> starting,
     seq    |-> IncrementSequenceNumber(m).ret]

RunDone(r, out) == run' = [r EXCEPT !.pc = "done", !.out = out]
Called(r, what) == [r EXCEPT !.trace = Append(@, what)]

\* Sequence readiness, then the choice of the next step by kind.
KindCheckSequenceRefresh ==
    /\ run.pc = "checkSeq"
    /\ LET next == IF IsContractAddress(run.destAddress) THEN "simulate"
                   ELSE "probe"
       IN  IF SequenceIsCached(run.minion)
           THEN run' = [run EXCEPT !.pc = next]
           ELSE \/ RunDone(Called(run, "fetch"),
                           SubmitResult(NoTx, "checking minion seq"))
                \/ \E ls \in 1..MaxLedgerSeq :
                     run' = [Called(run, "fetch") EXCEPT
                        !.pc = next,
                        !.ledgerSeq = ls,
                        !.minion = [RefreshSequenceNumber(run.minion, ls)
                                      EXCEPT !.forceRefreshSequence = FALSE]]

\* Destination probe (classic): CheckAccountExists on the ledger's entry.
KindCheckAccountExists ==
    /\ run.pc = "probe"
    /\ LET r == [Called(run, "probe") EXCEPT !.probes = @ + 1] IN
         \/ run' = [r EXCEPT !.pc = "build",
                             !.exists = run.account.exists,
                             !.balance = run.account.balance]
         \/ \E e \in ClientErrors \ {ErrNotFound} :
              RunDone([r EXCEPT !.probeErr = <<e>>],
                      SubmitResult(NoTx, "checking account exists"))

\* Already-funded gate and construction (classic).
KindBuild ==
    /\ run.pc = "build"
    /\ LET err == checkBalance(run.balance, StartingBalance) IN
         IF err # "nil"
         THEN RunDone(run, SubmitResult(NoTx, err))
         ELSE \/ RunDone(run, SubmitResult(NoTx, "making payment tx"))
              \/ run' = [run EXCEPT
                    !.pc = "submit",
                    !.tx = makeTx(run.minion, run.destAddress, run.exists,
                                  StartingBalance),
                    !.minion = IncrementSequenceNumber(run.minion).acct]

\* Construction for a contract: simulate the invoke-transfer call, then
\* build the transaction with the returned resource data.
KindSimulate ==
    /\ run.pc = "simulate"
    /\ \/ RunDone(run, SubmitResult(NoTx, "making payment tx"))
       \/ \E r \in SimulateOutcomes(run.backend) :
            LET c == [Called(run, "simulate") EXCEPT !.simulates = @ + 1,
                                                     !.sim = r]
            IN  IF SimulationFails(r)
                THEN RunDone(c, SubmitResult(NoTx, r.err))
                ELSE run' = [c EXCEPT
                       !.pc = "submit",
                       !.tx = makeContractTx(run.minion, run.destAddress,
                                             StartingBalance),
                       !.minion = IncrementSequenceNumber(run.minion).acct]

\* Submit, and the outcome.
KindSubmit ==
    /\ run.pc = "submit"
    /\ LET r == [Called(run, "submit") EXCEPT !.submits = @ + 1] IN
         \/ RunDone(r, SubmitResult(run.tx, "nil"))
         \/ \E e \in ClientErrors :
              RunDone([r EXCEPT !.subErr = <<e>>,
                                !.minion = IF e.net
                                           THEN checkHandleBadSequence(@, e)
                                           ELSE @],
                      SubmitResult(NoTx, SubmitError(e)))

RunRest == <<Minions, StartingBalance, nextMinionIndex, indexMux, pc, call,
             selected, lastSubmitted, refreshed, lastBadSeq, calls, boot, rpc, ledger>>

InitRun ==
    /\ \E a \in ClassicAddresses \cup ContractAddresses, b \in Backends,
          l \in LedgerAccounts, q \in InitSequences :
         run = [NoRun EXCEPT
                  !.pc = "checkSeq", !.destAddress = a, !.backend = b,
                  !.account = l,
                  !.minion = [Sequence |-> q, forceRefreshSequence |-> FALSE],
                  !.minion0 = [Sequence |-> q, forceRefreshSequence |-> FALSE]]
    /\ StartingBalance \in StartingBalances
    /\ Minions = << >>
    /\ nextMinionIndex = 0
    /\ indexMux = << >>
    /\ pc = << >>
    /\ call = << >>
    /\ selected = << >>
    /\ lastSubmitted = << >>
    /\ refreshed = << >>
    /\ lastBadSeq = << >>
    /\ calls = 0
    /\ boot = NoBoot
    /\ rpc = NoRpc
    /\ ledger = NoLedger

NextRun ==
    \/ KindCheckSequenceRefresh /\ UNCHANGED RunRest
    \/ KindCheckAccountExists /\ UNCHANGED RunRest
    \/ KindBuild /\ UNCHANGED RunRest
    \/ KindSimulate /\ UNCHANGED RunRest
    \/ KindSubmit /\ UNCHANGED RunRest

SpecRun == InitRun /\ [][NextRun]_vars

\* ------------------------------------------------- one Run of a minion
\* Minion.Run on a classic destination, for a minion in any state earlier
\* calls of Run on it can have left: a cached sequence or none, the
\* force-refresh flag set or not.
MinionStates ==
    {[Sequence |-> q, forceRefreshSequence |-> f] :
        q \in InitSequences, f \in BOOLEAN}

InitMinion ==
    /\ \E a \in ClassicAddresses, l \in LedgerAccounts, m \in MinionStates :
         run = [NoRun EXCEPT
                  !.pc = "checkSeq", !.destAddress = a, !.backend = "horizon",
                  !.account = l, !.minion = m, !.minion0 = m]
    /\ StartingBalance \in StartingBalances
    /\ Minions = << >>
    /\ nextMinionIndex = 0
    /\ indexMux = << >>
    /\ pc = << >>
    /\ call = << >>
    /\ selected = << >>
    /\ lastSubmitted = << >>
    /\ refreshed = << >>
    /\ lastBadSeq = << >>
    /\ calls = 0
    /\ boot = NoBoot
    /\ rpc = NoRpc
    /\ ledger = NoLedger

NextMinion ==
    \/ KindCheckSequenceRefresh /\ UNCHANGED RunRest
    \/ KindCheckAccountExists /\ UNCHANGED RunRest
    \/ KindBuild /\ UNCHANGED RunRest
    \/ KindSubmit /\ UNCHANGED RunRest

SpecMinion == InitMinion /\ [][NextMinion]_vars

\* ===================================================== RPC network client
\* rpcnetworkclient.NetworkClient.SubmitTransaction: one send, then polls
\* with exponential backoff, all under one context with a deadline.
statusError == "ERROR"
SendStatuses == {"PENDING", "DUPLICATE", "TRY_AGAIN_LATER", statusError}
PollStatuses == {"SUCCESS", "FAILED", "NOT_FOUND"}
ResultXDRs == {"tx_bad_seq", "tx_failed", createAccountAlreadyExistXDR}

\* &NetworkError{err: err}: a transport error, or the error of a request
\* whose context is done.
RpcTransportError == NetErr(FALSE, FALSE, FALSE, "none")
\* &NetworkError{err: ..., resultXDR: ...}; IsBadSequence decodes the XDR.
RpcResultError(resultXDR) ==
    NetErr(FALSE, resultXDR = "tx_bad_seq", FALSE, resultXDR)
\* &NetworkError{err: "timeout waiting for transaction ...", timeout: true}
RpcTimeoutError == NetErr(FALSE, FALSE, TRUE, "none")

RpcReturn(r, e) == rpc' = [r EXCEPT !.pc = "done", !.ret = e]

\* if response.Status == statusError
SendRejected_Never(status) == FALSE
SendRejected(status) == status = statusError

\* switch txResponse.Status in the polled operation: what the status makes
\* of the poll.
PollVerdict_NotFoundFails(status) ==
    CASE status = "SUCCESS" -> "nil"
      [] OTHER -> "permanent"
PollVerdict(status) ==
    CASE status = "SUCCESS" -> "nil"
      [] status = "FAILED" -> "permanent"
      [] OTHER -> "retry"

\* ctx.Done() as the client's requests and backoff.Retry's wait see it: the
\* context of context.WithTimeout is done once the deadline has passed.
ContextDone_Never(expired) == FALSE
ContextDone(expired) == expired

\* The deadline of context.WithTimeout passes while SubmitTransaction runs.
RpcDeadline ==
    /\ rpc.pc \in {"send", "poll", "wait"}
    /\ ~rpc.expired
    /\ rpc' = [rpc EXCEPT !.expired = TRUE]

\* response, err := r.client.SendTransaction(ctx, request) and the checks
\* on it.  A request whose context is done returns the context's error.
RpcSend ==
    /\ rpc.pc = "send"
    /\ IF ContextDone(rpc.expired)
       THEN RpcReturn(rpc, <<RpcTransportError>>)
       ELSE \/ RpcReturn(rpc, <<RpcTransportError>>)
            \/ \E st \in SendStatuses :
                 LET r == [rpc EXCEPT !.sendStatus = st] IN
                   IF SendRejected(st)
                   THEN \E x \in ResultXDRs :
                          RpcReturn(r, <<RpcResultError(x)>>)
                   ELSE rpc' = [r EXCEPT !.pc = "poll", !.sent = TRUE]

\* One run of the operation backoff.Retry calls: GetTransaction and the
\* switch on the status.
RpcPoll ==
    /\ rpc.pc = "poll"
    /\ LET r == [rpc EXCEPT !.polls = @ + 1,
                            !.lastStatus = "",
                            !.latePolls = IF rpc.expired THEN @ + 1 ELSE @]
       IN  IF ContextDone(rpc.expired)
           THEN RpcReturn(r, <<RpcTransportError>>)
           ELSE \/ RpcReturn(r, <<RpcTransportError>>)
                \/ \E st \in PollStatuses :
                     LET q == [r EXCEPT !.lastStatus = st,
                                        !.finalized =
                                            st \in {"SUCCESS", "FAILED"}]
                     IN  CASE PollVerdict(st) = "nil" ->
                                RpcReturn(q, << >>)
                           [] PollVerdict(st) = "permanent" ->
                                \E x \in ResultXDRs :
                                  RpcReturn(q, <<RpcResultError(x)>>)
                           [] OTHER -> rpc' = [q EXCEPT !.pc = "wait"]

\* backoff.Retry between two runs of the operation: the wait for the next
\* interval, which ends early when the context is done.  The deadline
\* allows only so many intervals.
RpcWait ==
    /\ rpc.pc = "wait"
    /\ IF ContextDone(rpc.expired)
       THEN RpcReturn(rpc, <<RpcTimeoutError>>)
       ELSE /\ rpc.polls < MaxPolls
            /\ rpc' = [rpc EXCEPT !.pc = "poll"]

RpcRest == <<Minions, StartingBalance, nextMinionIndex, indexMux, pc, call,
             selected, lastSubmitted, refreshed, lastBadSeq, calls, boot, run, ledger>>

InitRpc ==
    /\ rpc = [NoRpc EXCEPT !.pc = "send"]
    /\ ledger = NoLedger
    /\ run = NoRun
    /\ boot = NoBoot
    /\ StartingBalance = Amt(100, 2)
    /\ Minions = << >>
    /\ nextMinionIndex = 0
    /\ indexMux = << >>
    /\ pc = << >>
    /\ call = << >>
    /\ selected = << >>
    /\ lastSubmitted = << >>
    /\ refreshed = << >>
    /\ lastBadSeq = << >>
    /\ calls = 0

NextRpc ==
    \/ RpcDeadline /\ UNCHANGED RpcRest
    \/ RpcSend /\ UNCHANGED RpcRest
    \/ RpcPoll /\ UNCHANGED RpcRest
    \/ RpcWait /\ UNCHANGED RpcRest

SpecRpc == InitRpc /\ [][NextRpc]_vars

\* SubmitTransaction is one sequential call: a request returns (with an
\* answer, or with the context's error at the deadline), the backoff timer
\* fires, and the deadline of the context passes.
SpecRpcLive == SpecRpc /\ WF_vars(NextRpc)

\* ============================================ the Bot initFriendbot builds
\* createMinionAccounts gives every minion an Account with only the
\* AccountID set: the cached Sequence is the zero value.
InitBuilt ==
    /\ Init
    /\ \A i \in DOMAIN Minions : Minions[i].Sequence = 0

SpecBuilt == InitBuilt /\ [][Next]_vars

\* ======================================================== request handler
\* The service as deployed: a Bot built by initFriendbot behind the request
\* handler, which classifies the address before it calls Bot.Pay.
InvalidAddresses == {"invalid_address", "CINVALIDADDRESS"}
RequestAddresses == Addresses \cup InvalidAddresses

\* Classify(address) -> ClassicAccount | Contract | Invalid
Classify_AcceptAll(a) ==
    IF IsContractAddress(a) THEN "Contract" ELSE "ClassicAccount"
Classify(a) ==
    IF a \in InvalidAddresses THEN "Invalid"
    ELSE IF IsContractAddress(a) THEN "Contract"
    ELSE "ClassicAccount"

BadRequest == SubmitResult(NoTx, "bad_request")

\* One request: an invalid address is answered 400 Bad Request at once;
\* every other address goes to Bot.Pay.
HandleRequest(t) ==
    /\ pc[t] \in {"idle", "returned"}
    /\ calls < MaxCalls
    /\ \E d \in RequestAddresses :
         IF Classify(d) = "Invalid"
         THEN /\ Locals(t, [NoCall EXCEPT !.destAddress = d,
                                          !.ret = BadRequest])
              /\ Goto(t, "returned")
         ELSE /\ Locals(t, [NoCall EXCEPT !.destAddress = d])
              /\ Goto(t, "lock")
    /\ calls' = calls + 1
    /\ UNCHANGED <<boot, run, rpc, ledger>>
    /\ UNCHANGED <<Minions, StartingBalance, nextMinionIndex, indexMux,
                   selected, lastSubmitted, refreshed, lastBadSeq>>

InitApi == InitBuilt

NextApi ==
    \E t \in Threads :
       \/ HandleRequest(t)
       \/ PayLock(t)
       \/ PaySelect(t)
       \/ PayUnlockGo(t)
       \/ RunCheckSequenceRefresh(t)
       \/ RunCheckAccountExists(t)
       \/ RunBuild(t)
       \/ RunSubmit(t)
       \/ PayReceive(t)

SpecApi == InitApi /\ [][NextApi]_vars

\* ================================================== Pay against one ledger
\* The calls of Pay with the answers of the network client tied to one
\* ledger: a probe reports the account the ledger holds, and the ledger
\* applies a CreateAccount only for an account that does not exist (its
\* rejection is the createAccountAlreadyExist result) and a Payment only to
\* one that does.
LedgerAccepts_Always(tx, acct) == TRUE
LedgerAccepts(tx, acct) ==
    IF tx.op = "CreateAccount" THEN ~acct.exists ELSE acct.exists

\* The account after the ledger applied the transaction.
LedgerApplied(tx, acct) ==
    [exists    |-> TRUE,
     balance   |-> IF tx.op = "CreateAccount"
                   THEN ParseInt64(tx.amount).v
                   ELSE acct.balance + ParseInt64(tx.amount).v,
     created   |-> IF tx.op = "CreateAccount" THEN acct.created + 1
                   ELSE acct.created,
     successes |-> acct.successes]

\* The balance string GetAccountDetails reports: seven decimal places.
BalanceString(acct) == Amt(acct.balance, StroopDigits)

\* CheckAccountExists against the ledger.  The request may still fail.
LedgerProbe(t) ==
    /\ CheckAccountExistsStep(t)
    /\ LET acct == ledger[call[t].destAddress] IN
         pc'[t] = "build" =>
            /\ call'[t].exists = acct.exists
            /\ call'[t].balance = IF acct.exists THEN BalanceString(acct)
                                  ELSE ZeroBalance
    /\ UNCHANGED <<boot, run, rpc, ledger>>

\* SubmitTransaction against the ledger.  Success means the ledger applied
\* the transaction; an account-exists failure means it rejected a
\* CreateAccount for an existing account; after a timeout the transaction
\* may have been applied all the same.
LedgerSubmit(t) ==
    /\ SubmitStep(t)
    /\ LET tx   == call[t].tx
           d    == call[t].destAddress
           acct == ledger[d]
           e    == call'[t].subErr
           applied == LedgerApplied(tx, acct)
       IN  IF e = << >>
           THEN /\ LedgerAccepts(tx, acct)
                /\ ledger' = [ledger EXCEPT ![d] =
                                [applied EXCEPT !.successes = @ + 1]]
           ELSE /\ e = <<ErrAlreadyExist>> =>
                      (tx.op = "CreateAccount" /\ acct.exists)
                /\ \/ UNCHANGED ledger
                   \/ /\ e = <<ErrTimeout>>
                      /\ LedgerAccepts(tx, acct)
                      /\ ledger' = [ledger EXCEPT ![d] = applied]
    /\ UNCHANGED <<boot, run, rpc>>

NextLedger ==
    \E t \in Threads :
       \/ PayCall(t)
       \/ PayLock(t)
       \/ PaySelect(t)
       \/ PayUnlockGo(t)
       \/ RunCheckSequenceRefresh(t)
       \/ LedgerProbe(t)
       \/ RunBuild(t)
       \/ LedgerSubmit(t)
       \/ PayReceive(t)

SpecLedger == Init /\ [][NextLedger]_vars

\* ================================================================== claims
P == PoolLen(Minions)
Failure(r) == r.succ = NoTx /\ r.err \notin {"nil", "unset"}

\* C1: the k-th call to acquire the index lock (k = 0, 1, 2, ...) selects
\* minion index k mod P, whatever the destination addresses and whatever the
\* outcomes of earlier calls.
RoundRobin ==
    \A k \in 1..Len(selected) : selected[k] = (k - 1) % P

\* The selection has wrapped around a pool of two or more while one call
\* has already failed and another one is being dispatched.
RoundRobinWrapped ==
    /\ P >= 2
    /\ Len(selected) > P
    /\ \E t, u \in Threads :
         /\ pc[t] = "returned" /\ Failure(call[t].ret)
         /\ pc[u] = "unlock" /\ call[u].idx = 0

\* C2 (as claimed): on a minion that was never refreshed, a successful
\* submission carries the sequence of the previous successful submission
\* on that minion plus one.  Stated for calls that do not overlap another
\* call on the same minion, the case in which no collision is involved.
SuccessiveSequences ==
    \A t \in Threads :
       ( /\ pc[t] = "send"
         /\ call[t].out.err = "nil"
         /\ ~call[t].overlap
         /\ call[t].prevSeq >= 0 )
       => call[t].out.succ.seq = call[t].prevSeq + 1

\* C3 (as claimed): the first call dispatched to a minion after a call on it
\* failed with BadSequence fetches the sequence from the ledger before it
\* builds its transaction.
RefreshAfterBadSequence ==
    \A t \in Threads :
       (call[t].afterBadSeq /\ pc[t] \in {"probe", "build", "submit", "send"})
       => call[t].fetches >= 1

FundedBy(c) ==
    /\ c.probed /\ c.exists
    /\ ~ParseInt64(c.balance).err
    /\ ~ParseInt64(StartingBalance).err
    /\ ParseInt64(c.balance).v >= ParseInt64(StartingBalance).v

AlreadyFundedGate ==
    \A t \in Threads :
       (FundedBy(call[t]) /\ pc[t] \in {"submit", "send"})
       => /\ pc[t] = "send"
          /\ call[t].out = SubmitResult(NoTx, "ErrAccountFunded")
          /\ call[t].tx = NoTx
          /\ call[t].submits = 0
          /\ call[t].minion.Sequence = call[t].seq0

\* The balance "1.0000000" against the starting balance "1.00".
AlreadyFundedAtExactBalance ==
    \E t \in Threads :
       /\ pc[t] = "send"
       /\ FundedBy(call[t])
       /\ call[t].balance = Amt(10000000, 7)
       /\ StartingBalance = Amt(100, 2)
       /\ call[t].out.err = "ErrAccountFunded"

\* C6: Pay returns exactly the pair the selected minion's Run produced and
\* starts Run exactly once per call.
PayReturnsRunOutcome ==
    \A t \in Threads :
       /\ call[t].runs <= 1
       /\ pc[t] \in RunPcs \cup {"send", "returned"} => call[t].runs = 1
       /\ pc[t] = "returned" => call[t].ret = call[t].out

\* A BadSequence failure has been returned by Pay after a single run of Run.
FailureReturnedOnce ==
    \E t \in Threads :
       /\ pc[t] = "returned"
       /\ Failure(call[t].ret)
       /\ call[t].ret.err = "tx_bad_seq"
       /\ call[t].runs = 1

\* C7: every Pay call eventually returns, for any number of concurrent calls
\* and on the success path and every failure path of Run, provided each
\* step the minion invokes returns.
PayEventuallyReturns ==
    \A t \in Threads : (pc[t] = "lock") ~> (pc[t] = "returned")

\* A call has returned a failure while another call's Run is in progress.
ReturnedUnderConcurrency ==
    \E t, u \in Threads :
       /\ t # u
       /\ pc[t] = "returned" /\ Failure(call[t].ret)
       /\ pc[u] \in RunPcs
       /\ Len(selected) >= 2

\* C8: in every reachable state, under any interleaving of concurrent Pay
\* calls, the cursor satisfies 0 <= nextMinionIndex < len(Minions).
CursorInRange == 0 <= nextMinionIndex /\ nextMinionIndex < PoolLen(Minions)

\* Two calls are past the selection at once and the cursor has wrapped.
CursorWrappedUnderConcurrency ==
    /\ Len(selected) > PoolLen(Minions)
    /\ nextMinionIndex = Len(selected) % PoolLen(Minions)
    /\ \E t, u \in Threads : t # u /\ pc[t] \in RunPcs /\ pc[u] \in RunPcs

\* C9: initFriendbot never returns a Bot with an empty pool: for every
\* configuration and every pattern of failures during bootstrap it returns
\* an error, or a Bot with at least one minion.
BotPoolNonEmpty ==
    boot.result = "bot" =>
        /\ PoolLen(Minions) >= 1
        /\ PoolLen(Minions) = Len(boot.ret.minions)

\* createMinionAccounts failed after a first batch was applied, and
\* initFriendbot returned the Bot with the partial pool.
BotWithPartialPool ==
    /\ boot.result = "bot"
    /\ boot.ret.err # "nil"
    /\ PoolLen(Minions) >= 1
    /\ PoolLen(Minions) < boot.numMinions

\* C10: when createMinionAccounts aborts while working on batch k, it returns
\* a non-nil error together with exactly the minions of batches 1..k-1, the
\* ones whose submission succeeded: no minion of the failed batch and none
\* of a timed-out attempt is in the returned pool.
Aborted == boot.pc \in {"return", "done"} /\ boot.ret.err \notin {"unset", "nil"}

AbortReturnsPriorBatches ==
    Aborted =>
        /\ KeySet(boot.ret.minions) = boot.created
        /\ Len(boot.ret.minions) = boot.okBatches * boot.minionBatchSize
        /\ KeySet(boot.ret.minions) \cap KeySet(boot.newMinions) = {}
        /\ KeySet(boot.ret.minions) \cap boot.attempted = {}
        /\ KeySet(boot.ret.minions) \cap boot.timedOut = {}

\* The second batch ran out of retries: one batch is in the returned pool, and
\* accounts of timed-out attempts and of the failed batch are not.
AbortAfterRetries ==
    /\ Aborted
    /\ boot.ret.err = "after retrying"
    /\ boot.okBatches = 1
    /\ boot.currentSubmitTxRetry >= 1
    /\ Len(boot.ret.minions) >= 1
    /\ boot.timedOut # {}
    /\ boot.newMinions # << >>

\* ------------------------------------------------------- bootstrap claims
Max0(x) == IF x > 0 THEN x ELSE 0
CeilDiv(n, d) == (n + d - 1) \div d
InLoop == boot.pc \in {"loop", "batch", "submit"}
\* The retries allowed per batch: a negative setting allows none.
MaxRetries == Max0(boot.submitTxRetriesAllowed)
\* ceil(desiredCount / batchSize); no batch is ever submitted with a batch
\* size below one.
MaxBatches ==
    IF boot.minionBatchSize >= 1
    THEN CeilDiv(boot.numMinions, boot.minionBatchSize) ELSE 0

RetryBudget ==
    /\ boot.currentSubmitTxRetry <= MaxRetries
    /\ boot.batchAttempts <= MaxRetries + 1
    /\ InLoop => boot.currentSubmitTxRetry = boot.batchAttempts
    /\ (InLoop /\ boot.batchAttempts >= 1) =>
          /\ boot.lastErr # << >>
          /\ boot.lastErr[1].net /\ boot.lastErr[1].timeout
    /\ boot.submissions <= MaxBatches * (MaxRetries + 1)

\* C11: for each batch createMinionAccounts makes at most maxRetries retries
\* (maxRetries + 1 submissions), each retry only after a Timeout-classified
\* failure, with a retry budget per batch; bootstrap makes at most
\* ceil(desiredCount / batchSize) * (maxRetries + 1) submissions and always
\* terminates.
BootstrapRetriesBounded == []RetryBudget /\ <>(boot.pc = "done")

\* Bootstrap completed after every one of two or more batches used its
\* whole retry budget: the bound on the submissions is attained.
RetryBudgetUsedUp ==
    /\ boot.pc = "done"
    /\ boot.ret.err = "nil"
    /\ boot.submitTxRetriesAllowed >= 1
    /\ boot.okBatches >= 2
    /\ boot.submissions = MaxBatches * (MaxRetries + 1)

\* C12: a bootstrap submission failure that is not a Timeout-classified
\* NetworkError (another NetworkError, or an error that is no NetworkError)
\* aborts bootstrap at once: the latest submission stays the last one, with
\* no retry and no further batch.
LastSubmissionFailedFatally ==
    /\ boot.lastErr # << >>
    /\ ~(boot.lastErr[1].net /\ boot.lastErr[1].timeout)

FatalSubmissionAborts ==
    LastSubmissionFailedFatally =>
        /\ boot.pc \in {"return", "done"}
        /\ boot.ret.err = "submitting create accounts tx"
        /\ boot.ret.minions = boot.minions

\* An error that is no NetworkError ended bootstrap while retries were left
\* and minions of a later batch were still to be created.
PlainErrorAborted ==
    /\ boot.pc = "done"
    /\ boot.lastErr = <<PlainError>>
    /\ boot.currentSubmitTxRetry < boot.submitTxRetriesAllowed
    /\ boot.numRemainingMinions > boot.minionBatchSize
    /\ boot.minionBatchSize >= 1

\* C13 (as claimed): if bootstrap aborts, on a failure that is no Timeout or
\* with its retries exhausted, after at least one batch succeeded, the
\* caller of initFriendbot receives the error: initFriendbot does not
\* report success.
PartialPoolFailureSurfaced ==
    ( /\ boot.pc = "done"
      /\ boot.ret.err \in {"submitting create accounts tx", "after retrying"}
      /\ boot.okBatches >= 1 )
    => boot.result = "error"

\* C14: when every batch submission succeeds within its retry budget,
\* createMinionAccounts returns a nil error and exactly desiredCount minions,
\* created by ceil(desiredCount / batchSize) applied batches of
\* min(remaining, batchSize) CreateAccount operations each.
BatchOpsExpected(k) ==
    LET remaining == boot.numMinions - (k - 1) * boot.minionBatchSize
    IN  IF remaining < boot.minionBatchSize THEN remaining
        ELSE boot.minionBatchSize

BootstrapCreatesAll ==
    /\ ( /\ boot.pc \in {"return", "done"}
         /\ MaxBatches >= 1
         /\ boot.okBatches = MaxBatches )
       => boot.ret.err = "nil"
    /\ boot.ret.err = "nil" =>
         /\ Len(boot.ret.minions) = boot.numMinions
         /\ Cardinality(KeySet(boot.ret.minions)) = boot.numMinions
         /\ boot.okBatches = MaxBatches
         /\ Len(boot.batchOps) = MaxBatches
         /\ \A k \in 1..Len(boot.batchOps) :
               boot.batchOps[k] = BatchOpsExpected(k)

\* Three minions were created in batches of two and one, after a retry.
BootstrapCompletedWithShortBatch ==
    /\ boot.pc = "done"
    /\ boot.ret.err = "nil"
    /\ boot.result = "bot"
    /\ boot.batchOps = <<2, 1>>
    /\ boot.submissions > boot.okBatches

\* ------------------------------------------------- transaction strategy
Stroops(a) == ParseInt64(a).v
Built(t) == pc[t] \in {"submit", "send"} /\ call[t].tx # NoTx
Succeeded(t) == pc[t] = "send" /\ call[t].out.err = "nil"

\* C15: for a classic destination that exists with a balance b below the
\* starting balance S, Run builds a Payment of the full amount S (not the
\* shortfall S - b) paid by the shared funder; once the submission is
\* applied the destination's balance is b + S.
Underfunded(c) ==
    /\ c.probed /\ c.exists
    /\ ~ParseInt64(c.balance).err
    /\ ~ParseInt64(StartingBalance).err
    /\ Stroops(c.balance) < Stroops(StartingBalance)

FullTopUp ==
    \A t \in Threads :
       (Built(t) /\ Underfunded(call[t])) =>
          /\ call[t].tx.op = "Payment"
          /\ call[t].tx.source = "BotAccount"
          /\ call[t].tx.dest = call[t].destAddress
          /\ Stroops(call[t].tx.amount) = Stroops(StartingBalance)
          /\ Succeeded(t) =>
                call[t].balanceAfter =
                   Stroops(call[t].balance) + Stroops(StartingBalance)

\* An account holding 0.9999999 was paid the whole 1.00.
ToppedUpInFull ==
    \E t \in Threads :
       /\ Succeeded(t)
       /\ Underfunded(call[t])
       /\ call[t].balance = Amt(9999999, 7)
       /\ call[t].balanceAfter = 19999999

\* C16 (as claimed): for a classic destination the probe reports as
\* non-existent, Run is not stopped by the already-funded gate and builds a
\* CreateAccount with amount = starting balance, for every configured
\* starting balance.
CreateForMissingDestination ==
    \A t \in Threads :
       (call[t].probed /\ ~call[t].exists /\ pc[t] \in {"submit", "send"}) =>
          /\ call[t].out.err # "ErrAccountFunded"
          /\ Built(t) =>
                /\ call[t].tx.op = "CreateAccount"
                /\ call[t].tx.amount = StartingBalance

\* ------------------------------------------------ claims by destination kind
ToContract == run.destAddress \in ContractAddresses
ToClassic == run.destAddress \in ClassicAddresses
CalledInRun(what) == \E i \in DOMAIN run.trace : run.trace[i] = what

\* C17: for a Contract-kind destination Run never invokes the
\* existence/balance probe and never returns AlreadyFunded, even when a
\* probe would have reported a balance >= the starting balance.
ContractSkipsProbe ==
    ToContract =>
        /\ run.probes = 0
        /\ ~CalledInRun("probe")
        /\ run.out.err # "ErrAccountFunded"

\* A contract whose address holds the starting balance on the ledger was
\* funded.
FundedContractFundedAgain ==
    /\ ToContract
    /\ run.pc = "done"
    /\ run.out.err = "nil"
    /\ run.out.succ.op = "InvokeHostFunction"
    /\ run.account = [exists |-> TRUE, balance |-> Amt(10000000, 7)]
    /\ StartingBalance = Amt(100, 2)

\* C18: for a Contract-kind destination Simulate is invoked before Submit
\* in every run, and if Simulate returns an error (simulation failed, or
\* the backend does not support simulation) the run ends in a Failure and
\* Submit is never invoked.
SimulateBeforeSubmit ==
    ToContract =>
        /\ \A i \in DOMAIN run.trace :
              run.trace[i] = "submit" =>
                 \E j \in 1..(i - 1) : run.trace[j] = "simulate"
        /\ run.pc = "submit" => run.simulates = 1 /\ run.sim.err = "nil"
        /\ run.sim.err \notin {"unset", "nil"} =>
              /\ run.pc = "done"
              /\ Failure(run.out)
              /\ run.out.err = run.sim.err
              /\ run.submits = 0

\* The RPC backend failed the simulation of a contract funding.
SimulationFailedNoSubmit ==
    /\ ToContract
    /\ run.backend = "rpc"
    /\ run.pc = "done"
    /\ run.simulates = 1
    /\ run.sim.err = "simulation failed"
    /\ run.submits = 0

\* C19: for a ClassicAccount destination Run never invokes Simulate, on the
\* CreateAccount path and on the Payment path alike.
ClassicNeverSimulates ==
    ToClassic =>
        /\ run.simulates = 0
        /\ ~CalledInRun("simulate")
        /\ run.tx # NoTx => run.tx.op \in {"CreateAccount", "Payment"}

\* A Payment to an existing classic account went through a backend that
\* supports simulation.
ClassicPaymentOnRpc ==
    /\ ToClassic
    /\ run.backend = "rpc"
    /\ run.pc = "done"
    /\ run.out.err = "nil"
    /\ run.out.succ.op = "Payment"
    /\ run.submits = 1

\* --------------------------------------------------- RPC SubmitTransaction
RpcReturned == rpc.pc = "done"
RpcReturnedError == RpcReturned /\ rpc.ret # << >>
\* The deadline passed during the call and no poll had observed SUCCESS or
\* FAILED.
DeadlineBeforeFinal == RpcReturned /\ rpc.expired /\ ~rpc.finalized

\* C20: when the transaction does not reach SUCCESS or FAILED before the
\* overall deadline, SubmitTransaction returns a NetworkError whose
\* IsTimeout() is true, wherever the deadline falls among the send and the
\* poll requests.
DeadlineIsTimeout ==
    DeadlineBeforeFinal =>
        /\ RpcReturnedError
        /\ rpc.ret[1].net
        /\ rpc.ret[1].timeout

\* C21: for a transaction the initial send accepted, SubmitTransaction
\* returns nil exactly when a poll observed SUCCESS; a poll that observes
\* FAILED ends the call with a NetworkError that is not a timeout and
\* carries the result XDR; a poll that observes any other status does not
\* end the call: another poll follows, unless the deadline ends the wait
\* for it.
Accepted == rpc.sent
LastPollObserved(statuses) == rpc.polls > 0 /\ rpc.lastStatus \in statuses
RejectedSendReturns ==
    rpc.sendStatus = statusError =>
        /\ RpcReturnedError
        /\ ~Accepted
        /\ rpc.polls = 0
        /\ rpc.ret[1].net
        /\ rpc.ret[1].res \in ResultXDRs
\* A send rejected with a bad sequence result.
RejectedWithBadSequence ==
    /\ rpc.sendStatus = statusError
    /\ RpcReturned
    /\ rpc.ret = <<RpcResultError("tx_bad_seq")>>
    /\ rpc.ret[1].badSeq

\* ------------------------------------------------- submission failures
SubmissionFailed(c) == c.submits > 0 /\ c.subErr # << >>

\* C23: a failed submission yields the error wrapping ErrAccountExists
\* exactly when the client's error is a NetworkError whose result string is
\* the createAccountAlreadyExist result; every other failed submission
\* yields another error.
AccountExistsClassified ==
    \A t \in Threads :
       (pc[t] = "send" /\ SubmissionFailed(call[t])) =>
          /\ call[t].out.succ = NoTx
          /\ call[t].out.err # "nil"
          /\ (call[t].out.err = "ErrAccountExists")
                <=> /\ call[t].subErr[1].net
                    /\ call[t].subErr[1].res = createAccountAlreadyExistXDR
\* A CreateAccount for a destination the probe did not find failed because
\* the account exists.
CreateLostRace ==
    \E t \in Threads :
       /\ pc[t] = "send"
       /\ SubmissionFailed(call[t])
       /\ call[t].tx.op = "CreateAccount"
       /\ call[t].subErr = <<ErrAlreadyExist>>
       /\ call[t].out.err = "ErrAccountExists"

\* ------------------------------------------------------------ collisions
\* C24 (as claimed): a call dispatched to a minion right after a call on it
\* failed with BadSequence in a collision, and that overlaps no other call
\* on the minion, builds its transaction from the sequence it fetched from
\* the ledger: it submits with the ledger's sequence plus one.
RetryAfterCollision ==
    \A t \in Threads :
       ( /\ call[t].afterCollision
         /\ ~call[t].overlap
         /\ pc[t] \in {"submit", "send"}
         /\ call[t].tx # NoTx )
       => /\ call[t].fetches >= 1
          /\ call[t].tx.seq = call[t].seq0 + 1

\* Calls t and u hold the same minion index, and both have built their
\* transaction.
BothBuiltOn(t, u, i) ==
    /\ t # u
    /\ call[t].idx = i /\ call[u].idx = i
    /\ pc[t] \in {"submit", "send"} /\ pc[u] \in {"submit", "send"}
    /\ call[t].tx # NoTx /\ call[u].tx # NoTx

\* C25: nothing keeps two calls off the same minion.  Two calls in flight
\* on a minion whose pool entry holds a cached sequence both build from
\* that cached sequence, without a fetch: their transactions carry the same
\* sequence number.
CollidingCallsShareSequence ==
    \A t, u \in Threads : \A i \in DOMAIN Minions :
       (BothBuiltOn(t, u, i) /\ Minions[i].Sequence # 0) =>
          /\ call[t].overlap /\ call[u].overlap
          /\ call[t].fetches = 0 /\ call[u].fetches = 0
          /\ call[t].seq0 = Minions[i].Sequence
          /\ call[u].seq0 = Minions[i].Sequence
          /\ call[t].tx.seq = call[u].tx.seq
\* Two calls are in flight on one minion, each about to submit a transaction
\* with the same sequence number.
TwoInFlightOnOneMinion ==
    \E t, u \in Threads : \E i \in DOMAIN Minions :
       /\ BothBuiltOn(t, u, i)
       /\ Minions[i].Sequence # 0
       /\ pc[t] = "submit" /\ pc[u] = "submit"
       /\ call[t].tx.seq = call[u].tx.seq

\* C26: the index mutex is held only for the read-and-advance of the
\* cursor.  No thread whose Run is executing or blocked in network I/O (or
\* whose Pay waits for Run's result) holds it, and whoever holds it is
\* between Lock and Unlock, so a Pay that wants the mutex never waits for a
\* Run.
RunExecuting(t) == pc[t] \in RunPcs \cup {"send"}
MutexOnlyAroundCursor ==
    /\ \A t \in Threads : RunExecuting(t) => indexMux # <<t>>
    /\ indexMux # Unlocked =>
          \E u \in Threads : indexMux = <<u>> /\ pc[u] \in {"select", "unlock"}
\* A Pay holds the mutex and selects a minion while the Run of an earlier
\* call waits for the ledger's answer to its submission.
SelectsDuringSubmission ==
    \E t, u \in Threads :
       /\ pc[t] = "submit"
       /\ pc[u] = "select"
       /\ indexMux = <<u>>

\* ------------------------------------------------------- request handler
\* C27: a request whose address is neither a well-formed classic account
\* nor a well-formed contract identifier is rejected before dispatch: it
\* selects no minion and leaves the cursor and the mutex alone, starts no
\* Run, and makes no ledger call.
Rejected(c) == c.destAddress \in InvalidAddresses
RejectedUntouched ==
    \A t \in Threads :
       Rejected(call[t]) =>
          /\ pc[t] = "returned"
          /\ call[t].ret = BadRequest
          /\ call[t].idx = -1
          /\ call[t].runs = 0
          /\ call[t].fetches = 0
          /\ ~call[t].probed
          /\ call[t].submits = 0
RejectionLeavesCursor ==
    (\E t \in Threads : Rejected(call'[t]) /\ call'[t] # call[t]) =>
       /\ nextMinionIndex' = nextMinionIndex
       /\ selected' = selected
       /\ indexMux' = indexMux
InvalidAddressRejected ==
    /\ []RejectedUntouched
    /\ [][RejectionLeavesCursor]_vars
\* A request with an invalid address has been rejected while an earlier
\* call, dispatched to minion 0, waits in its submission.
RejectedDuringSubmission ==
    \E t, u \in Threads :
       /\ Rejected(call[t]) /\ pc[t] = "returned"
       /\ pc[u] = "submit"
       /\ selected = <<0>>
       /\ nextMinionIndex = 1 % P

\* C29: in a Bot built by initFriendbot every pool entry keeps the zero
\* Sequence, and every Run that Pay dispatched has fetched the minion's
\* sequence from the ledger before it builds its transaction.
FetchBeforeBuild ==
    /\ \A i \in DOMAIN Minions : Minions[i].Sequence = 0
    /\ \A t \in Threads :
          (pc[t] \in {"probe", "build", "submit"} \/ call[t].tx # NoTx) =>
             /\ call[t].fetches = 1
             /\ call[t].minion.Sequence = call[t].seq0
\* Two calls on one minion have both built their transaction, each from
\* its own fetch of the sequence.
BothCallsFetched ==
    \E t, u \in Threads : \E i \in DOMAIN Minions :
       /\ BothBuiltOn(t, u, i)
       /\ call[t].fetches = 1 /\ call[u].fetches = 1
       /\ pc[t] = "submit" /\ pc[u] = "submit"

\* C28: no step of any Pay call changes an element of Bot.Minions: the
\* cached sequence and the force-refresh flag of every pool entry stay what
\* they were.
PoolUnchanged == Minions' = Minions
PayLeavesPool == [][PoolUnchanged]_vars
\* A call that fetched the sequence and was then rejected with BadSequence
\* has returned: its own minion was refreshed and flagged, the pool entry
\* still has the zero Sequence and no flag.
PoolEntryAsBefore ==
    \E t \in Threads : \E i \in DOMAIN Minions :
       /\ pc[t] = "returned"
       /\ lastBadSeq[i].badSeq
       /\ refreshed[i]
       /\ Minions[i] = [Sequence |-> 0, forceRefreshSequence |-> FALSE]

\* C30 (as claimed): a Run that has reached the submission holds a cached
\* sequence one above the sequence it had after the sequence check, whether
\* the submission has succeeded, failed, or is still awaited.
AdvancedBeforeSubmit ==
    \A t \in Threads :
       (pc[t] \in {"submit", "send"} /\ call[t].tx # NoTx) =>
          call[t].minion.Sequence = call[t].seq0 + 1

\* ------------------------------------------------------ one Run, step by step
InTrace(what) == \E k \in DOMAIN run.trace : run.trace[k] = what
PastSequenceCheck == run.pc \in {"probe", "build", "submit"}
FetchFailed ==
    run.pc = "done" /\ run.out = SubmitResult(NoTx, "checking minion seq")

\* C31: CheckSequenceRefresh asks the ledger for the minion's sequence
\* exactly when the cached sequence is 0 or the force-refresh flag is set;
\* after a fetch that succeeded the cached sequence is the ledger's value
\* and the flag is false; without a fetch, cache and flag are what they
\* were.
SequenceRefreshContract ==
    /\ run.pc # "checkSeq" =>
          (InTrace("fetch")
             <=> (run.minion0.Sequence = 0
                    \/ run.minion0.forceRefreshSequence))
    /\ (PastSequenceCheck /\ InTrace("fetch")) =>
          /\ run.ledgerSeq >= 0
          /\ run.minion = [Sequence |-> run.ledgerSeq,
                           forceRefreshSequence |-> FALSE]
    /\ (PastSequenceCheck /\ ~InTrace("fetch")) =>
          /\ run.minion = run.minion0
          /\ run.ledgerSeq = -1
\* A minion with a cached sequence and the flag set has fetched: the flag
\* is cleared.
ForcedRefreshDone ==
    /\ PastSequenceCheck
    /\ run.minion0.Sequence # 0
    /\ run.minion0.forceRefreshSequence
    /\ InTrace("fetch")
    /\ ~run.minion.forceRefreshSequence

\* C32: Run makes its calls in the order sequence fetch (when needed),
\* destination probe, submission, with the balance gate and the build
\* between probe and submission; a step that fails ends the call with a
\* Failure and no later step runs.  No submission follows a failed fetch, a
\* probe error, a balance that does not parse or a construction error, and
\* a failed fetch leaves cache and flag as they were.
StepOrders ==
    {<< >>, <<"fetch">>, <<"probe">>, <<"fetch", "probe">>,
     <<"probe", "submit">>, <<"fetch", "probe", "submit">>}
FailedBeforeSubmit ==
    /\ run.pc = "done"
    /\ run.out.err \in {"checking minion seq", "checking account exists",
                        "cannot parse account balance",
                        "cannot parse starting balance",
                        "ErrAccountFunded", "making payment tx"}
StepsShortCircuit ==
    /\ run.trace \in StepOrders
    /\ run.submits > 0 =>
          /\ run.probes = 1
          /\ run.probeErr = << >>
          /\ ~ParseInt64(run.balance).err
          /\ ParseInt64(run.balance).v < ParseInt64(StartingBalance).v
          /\ run.tx # NoTx
    /\ FailedBeforeSubmit =>
          /\ Failure(run.out)
          /\ run.submits = 0
          /\ ~InTrace("submit")
    /\ FetchFailed =>
          /\ run.probes = 0
          /\ run.minion = run.minion0
    /\ (run.pc = "done" /\ run.probeErr # << >>) =>
          /\ run.out = SubmitResult(NoTx, "checking account exists")
          /\ run.tx = NoTx
    /\ (run.probes = 1 /\ run.exists /\ run.balance = NotANumber
          /\ run.pc \in {"submit", "done"}) =>
          /\ run.out = SubmitResult(NoTx, "cannot parse account balance")
          /\ run.tx = NoTx
\* The ledger reported a balance that does not parse: the call has ended
\* after the probe.
UnparsableBalanceEndsRun ==
    /\ run.pc = "done"
    /\ run.trace = <<"fetch", "probe">>
    /\ run.balance = NotANumber
    /\ run.out.err = "cannot parse account balance"
    /\ run.submits = 0

\* C33: only a submission failure classified BadSequence sets the
\* force-refresh flag.  The flag is false from the sequence check to the
\* submission; once the submission has answered, the flag is set exactly
\* when the answer was a NetworkError with IsBadSequence, and a call that
\* ended before the submission never set it.
BadSequenceAnswer ==
    /\ run.subErr # << >>
    /\ run.subErr[1].net
    /\ run.subErr[1].badSeq
FlagOnlyByBadSequence ==
    /\ PastSequenceCheck => ~run.minion.forceRefreshSequence
    /\ (run.pc = "done" /\ run.submits = 1) =>
          (run.minion.forceRefreshSequence <=> BadSequenceAnswer)
    /\ (run.pc = "done" /\ run.submits = 0) =>
          (run.minion.forceRefreshSequence
              => run.minion0.forceRefreshSequence)
\* A submission that timed out has left the flag unset.
TimeoutLeavesFlag ==
    /\ run.pc = "done"
    /\ run.submits = 1
    /\ run.subErr = <<ErrTimeout>>
    /\ ~run.minion.forceRefreshSequence

\* ------------------------------------------------------- result channel
\* C34: each Pay call makes its own result channel; Run sends exactly one
\* SubmitResult on it, on every path, and no send happens on a channel Pay
\* has closed.
OneSendPerChannel ==
    \A t \in Threads :
       /\ call[t].sends <= 1
       /\ pc[t] \in {"idle", "lock", "select", "unlock"} =>
             call[t].resultChan = "nil" /\ call[t].sends = 0
       /\ pc[t] \in RunPcs =>
             call[t].resultChan = "open" /\ call[t].sends = 0
       /\ pc[t] = "send" =>
             call[t].resultChan = "open" /\ call[t].sends = 1
       /\ (pc[t] = "returned" /\ call[t].runs = 1) =>
             call[t].resultChan = "closed" /\ call[t].sends = 1
NoSendAfterClose ==
    \A t \in Threads :
       call'[t].sends > call[t].sends => call[t].resultChan = "open"
SingleUseChannel ==
    /\ []OneSendPerChannel
    /\ [][NoSendAfterClose]_vars
\* A Run that failed at its first step has sent its one result, and Pay has
\* received it and closed the channel.
EarlyFailureSentOnce ==
    \E t \in Threads :
       /\ pc[t] = "returned"
       /\ call[t].ret.err = "checking minion seq"
       /\ call[t].sends = 1
       /\ call[t].resultChan = "closed"

\* C35: in the order of lock acquisition, any P consecutive selections pick
\* P distinct minions: two selections pick the same minion only at
\* positions that differ by a positive multiple of P.
ConsecutiveSelectionsDistinct ==
    \A j, k \in 1..Len(selected) :
       (j < k /\ selected[j] = selected[k]) => (k - j) % P = 0
\* With two minions and calls in flight at once, the third selection came
\* back to the minion of the first.
ThirdSelectionRepeatsFirst ==
    /\ P = 2
    /\ Len(selected) = 3
    /\ selected[1] = selected[3]
    /\ selected[1] # selected[2]
    /\ \E t, u \in Threads : t # u /\ pc[t] \in RunPcs /\ pc[u] \in RunPcs

\* ------------------------------------------------- races on a destination
\* C36: when concurrent calls fund the same destination that does not
\* exist, each may probe it as non-existent and submit a CreateAccount, but
\* the ledger applies at most one and at most one call returns Success; a
\* CreateAccount the ledger rejects because the account exists returns the
\* account-exists error; the destination holds exactly one starting
\* balance.
CreateRace(t) ==
    /\ pc[t] = "send"
    /\ call[t].submits = 1
    /\ call[t].tx.op = "CreateAccount"
    /\ ~call[t].exists
Selecting(t) == pc[t] = "select" /\ pc'[t] = "unlock"
InRunOn(t, j) == pc[t] \in RunPcs \cup {"send"} /\ call[t].idx = j
PayFootprintStep ==
    /\ nextMinionIndex' =
          IF \E t \in Threads : Selecting(t)
          THEN (nextMinionIndex + 1) % PoolLen(Minions)
          ELSE nextMinionIndex
    /\ DOMAIN Minions' = DOMAIN Minions
    /\ StartingBalance' = StartingBalance
    /\ \A j \in DOMAIN Minions :
          Minions'[j] # Minions[j] => \E t \in Threads : InRunOn(t, j)
PayFootprint == [][PayFootprintStep]_vars
\* One call on a pool of two has returned after its Run fetched the
\* sequence of minion 0 and submitted: the cursor stands at 1 and the other
\* minion still has the unset sequence and no flag.
OtherMinionUntouched ==
    \E t \in Threads :
       /\ PoolLen(Minions) = 2
       /\ selected = <<0>>
       /\ pc[t] = "returned"
       /\ call[t].ret.err = "nil"
       /\ refreshed[0]
       /\ nextMinionIndex = 1
       /\ Minions[1] = [Sequence |-> 0, forceRefreshSequence |-> FALSE]

\* -------------------------------------------------------- bootstrap retries
\* C38 (as claimed): the submission that retries a timed-out batch submits
\* the accounts of the timed-out attempt: the same set of channel accounts,
\* none of them newly generated.
RetrySubmitsSameBatch ==
    (boot.pc = "submit" /\ boot.batchAttempts > 0) =>
        /\ KeySet(boot.newMinions) = KeySet(boot.prevAttempt)
        /\ KeySet(boot.newMinions) \subseteq boot.timedOut

\* C39: every submission of a batch transaction, a retry included, comes
\* after a fetch of the bot account's sequence made since the previous
\* submission, and the transaction carries the fetched sequence plus one;
\* when the fetch fails bootstrap ends and nothing is submitted after it.
RefreshFailed ==
    boot.pc \in {"return", "done"} /\ boot.ret.err = "refreshing bot seqnum"
FreshSequencePerAttempt ==
    /\ boot.submissions <= boot.fetches
    /\ boot.pc = "submit" =>
          /\ boot.fetches = boot.submissions + 1
          /\ boot.txSeq = boot.fetched + 1
    /\ RefreshFailed => boot.submissions = boot.fetches
FunderSequenceSteps ==
    /\ boot'.submissions # boot.submissions =>
          /\ boot.pc = "submit"
          /\ boot'.submissions = boot.submissions + 1
    /\ RefreshFailed => boot'.submissions = boot.submissions
FreshFunderSequence == []FreshSequencePerAttempt /\ [][FunderSequenceSteps]_vars
\* A retry is at its submission after the ledger reported a sequence other
\* than the one the timed-out attempt was built on: the retried transaction
\* carries the new sequence plus one.
RetryOnNewSequence ==
    /\ boot.pc = "submit"
    /\ boot.batchAttempts = 1
    /\ boot.fetches = 2
    /\ boot.fetched = 2
    /\ boot.txSeq = 3
\* The fetch before a second batch failed: bootstrap returned after one
\* submission.
SecondFetchFailed ==
    RefreshFailed /\ boot.submissions = 1 /\ boot.okBatches = 1

\* ------------------------------------------------------ the RPC poll loop
\* C40: SubmitTransaction on the RPC client returns in every run.  Once the
\* send was accepted, it returns because a poll observed SUCCESS or FAILED,
\* because a poll request failed, or because the deadline passed; until
\* then no poll has observed SUCCESS or FAILED.  After the deadline no poll
\* request is answered: a run of the polled operation that finds the
\* context done ends the call, and there is at most one.
PollLoopEnded ==
    \/ rpc.lastStatus = "SUCCESS" /\ rpc.ret = << >>
    \/ /\ rpc.lastStatus = "FAILED"
       /\ \E x \in ResultXDRs : rpc.ret = <<RpcResultError(x)>>
    \/ /\ rpc.ret = <<RpcTransportError>>
       /\ rpc.polls > 0
       /\ rpc.lastStatus = ""
    \/ rpc.ret = <<RpcTimeoutError>> /\ rpc.expired
PollLoopEnds ==
    /\ rpc.sent /\ rpc.pc = "done" => PollLoopEnded
    /\ rpc.pc \in {"poll", "wait"} =>
          rpc.sent /\ rpc.lastStatus \notin {"SUCCESS", "FAILED"}
    /\ rpc.latePolls <= 1
    /\ rpc.latePolls = 1 => rpc.expired /\ rpc.pc = "done"
NoPollPastDeadline ==
    (rpc.expired /\ rpc'.polls # rpc.polls) =>
        /\ rpc'.lastStatus = ""
        /\ rpc'.pc = "done"
====
